---- MODULE Spec2Model ----
(***************************************************************************)
(* Outbound delivery pipeline and status reconciliation of the WhatsApp    *)
(* widget backend: routes/messageRoutes.js (send-message, send-template,   *)
(* sendWithRetry, formatPhoneNumber) and routes/webhookRoutes.js           *)
(* (POST /webhook/status, POST /webhook/incoming), over the Message        *)
(* collection of models/Message.                                           *)
(*                                                                         *)
(* Strings that the code inspects character by character (phone numbers)   *)
(* are sequences of one-character strings.  A missing request field        *)
(* (undefined) and the empty string are both falsy in the code and are     *)
(* both written as the empty value here.  A Date is a tick of the clock    *)
(* `now`; an unset Date field is Null.                                     *)
(***************************************************************************)
EXTENDS Integers, Sequences, FiniteSets, TLC

VARIABLES variant, store, req, now, gwSids, events, hookRes, hooks, fmt,
          connectedClients, sockets, clock, sweepDue, sent, ack, marked, callbacks, retries

\* the state of the Socket.IO handler
realtime == <<connectedClients, sockets, clock, sweepDue, sent, ack>>

\* the variables the HTTP handlers never touch
rest == <<fmt, realtime, callbacks, retries>>

\* the variables the submission and webhook handlers never touch
others == <<rest, marked>>

vars == <<variant, store, req, now, gwSids, events, hookRes, hooks, fmt,
          connectedClients, sockets, clock, sweepDue, sent, ack, marked, callbacks, retries>>

----------------------------------------------------------------------------
(* Bounds of the model *)

MaxTime == 2
MaxRecords == 1
MaxSweeps == 7
MaxBroadcasts == 2

----------------------------------------------------------------------------
(* Values *)

Null == 0
NullStr == "<null>"
Missing == ""

maxRetries == 3
retryableErrors == {20429, 20003, 20005, 21614}

StatusOrder == <<"queued", "sending", "sent", "delivered", "read">>
FailureStatuses == {"failed", "undelivered"}

\* error objects the gateway client can throw: code 0 and status 0 stand for
\* an error object without that property
GatewayErrors ==
  { [code |-> 20429, status |-> 429, message |-> "Too many requests"],
    [code |-> 0,     status |-> 503, message |-> "Service unavailable"],
    [code |-> 21211, status |-> 400, message |-> "Invalid To number"] }

----------------------------------------------------------------------------
(* Strings as character sequences *)

Digits == {"0", "1", "2", "3", "4", "5", "6", "7", "8", "9"}
WhatsappPrefix == <<"w", "h", "a", "t", "s", "a", "p", "p", ":">>
NullSeq == <<"<null>">>

startsWith(s, p) == Len(p) <= Len(s) /\ SubSeq(s, 1, Len(p)) = p
substring(s, n) == SubSeq(s, n + 1, Len(s))

RECURSIVE trimLeft(_)
trimLeft(s) == IF s # <<>> /\ Head(s) = " " THEN trimLeft(Tail(s)) ELSE s

RECURSIVE trimRight(_)
trimRight(s) ==
  IF s # <<>> /\ s[Len(s)] = " " THEN trimRight(SubSeq(s, 1, Len(s) - 1)) ELSE s

trim(s) == trimRight(trimLeft(s))

IsDigitOrPlus(c) == c \in Digits \cup {"+"}
IsDigit(c) == c \in Digits

\* /^\d{10,15}$/
MatchesDigitWindow(s) ==
  /\ Len(s) >= 10
  /\ Len(s) <= 15
  /\ \A i \in 1..Len(s) : s[i] \in Digits

\* formatPhoneNumber without the check of the digit window
formatPhoneNumber_unvalidated(number) ==
  IF number = <<>> THEN NullSeq
  ELSE
    LET c0 == trim(number) IN
    IF startsWith(c0, WhatsappPrefix) THEN c0
    ELSE WhatsappPrefix \o <<"+">> \o SelectSeq(c0, IsDigit)

\* formatPhoneNumber that takes every input for a local number: no early
\* return, the country code is put before the digits whatever they start with
formatPhoneNumber_prependsCode(number) ==
  IF number = <<>> THEN NullSeq
  ELSE
    LET digitsOnly == SelectSeq(trim(number), IsDigit)
        c4 == IF startsWith(digitsOnly, <<"0">>) /\ Len(digitsOnly) > 1
              THEN <<"+", "9", "7", "1">> \o substring(digitsOnly, 1)
              ELSE <<"+", "9", "7", "1">> \o digitsOnly
    IN IF ~MatchesDigitWindow(substring(c4, 1)) THEN NullSeq ELSE WhatsappPrefix \o c4

formatPhoneNumber(number) ==
  IF number = <<>> THEN NullSeq
  ELSE
    LET c0 == trim(number) IN
    IF startsWith(c0, WhatsappPrefix) THEN c0
    ELSE
      LET c1 == IF startsWith(c0, WhatsappPrefix \o <<"+">>) THEN substring(c0, 9) ELSE c0
          c2 == IF startsWith(c1, WhatsappPrefix)
                THEN LET t == substring(c1, 9)
                     IN IF startsWith(t, <<"+">>) THEN t ELSE <<"+">> \o t
                ELSE c1
          c3 == SelectSeq(c2, IsDigitOrPlus)
          digitsOnly == SelectSeq(c3, IsDigit)
          c4 == IF ~startsWith(c3, <<"+">>)
                THEN IF startsWith(digitsOnly, <<"9", "7", "1">>)
                     THEN <<"+">> \o digitsOnly
                     ELSE IF startsWith(digitsOnly, <<"0">>) /\ Len(digitsOnly) > 1
                     THEN <<"+", "9", "7", "1">> \o substring(digitsOnly, 1)
                     ELSE <<"+", "9", "7", "1">> \o digitsOnly
                ELSE <<"+">> \o SelectSeq(substring(c3, 1), IsDigit)
          tail == IF startsWith(c4, <<"+">>) THEN substring(c4, 1) ELSE c4
      IN IF ~MatchesDigitWindow(tail) THEN NullSeq ELSE WhatsappPrefix \o c4

\* the variant of formatPhoneNumber in the second routes file
formatPhoneNumber_part003(number) ==
  IF number = <<>> THEN NullSeq
  ELSE
    LET cleanNumber == trim(number) IN
    IF startsWith(cleanNumber, WhatsappPrefix) THEN cleanNumber
    ELSE
      LET formattedNumber ==
            IF startsWith(cleanNumber, <<"+">>) THEN substring(cleanNumber, 1)
            ELSE IF startsWith(cleanNumber, <<"0", "0">>) THEN substring(cleanNumber, 2)
            ELSE cleanNumber
      IN IF ~MatchesDigitWindow(formattedNumber) THEN NullSeq
         ELSE WhatsappPrefix \o <<"+">> \o formattedNumber

stripWhatsappPrefix(number) ==
  IF startsWith(number, WhatsappPrefix) THEN substring(number, 9) ELSE number

\* media URLs are tokens; `new URL(u)` accepts the tokens of ValidUrls
ValidUrls == {"https://cdn/a.png"}
IsValidUrl(u) == u \in ValidUrls
validateMediaUrls(mediaUrl) == SelectSeq(mediaUrl, IsValidUrl)

----------------------------------------------------------------------------
(* Request inputs *)

PhoneUS == <<"+", "1", "5", "5", "5", "1", "2", "3", "4", "5", "6", "7">>
PhoneAbc == <<"a", "b", "c">>

ToInputs == {<<>>, PhoneUS, PhoneAbc}

\* arguments of formatPhoneNumber: a prefix, a body and a suffix
DigitRun(n) == [i \in 1..n |-> "5"]
NumberPrefixes ==
  {<<>>, WhatsappPrefix, WhatsappPrefix \o <<"+">>, <<"+">>, <<"0", "0">>, <<"0">>,
   <<"9", "7", "1">>, <<" ">>}
NumberBodies ==
  {DigitRun(n) : n \in {0, 6, 9, 10, 12, 15, 16}}
  \cup {<<"a", "b", "c">>, <<"5", "5", "5", "-", "1", "2", "3", " ", "4", "5", "6", "7">>}
NumberSuffixes == {<<>>, <<" ">>, <<"x">>}
NumberInputs ==
  {p \o b \o x : p \in NumberPrefixes, b \in NumberBodies, x \in NumberSuffixes}
ContactInputs == {Missing, "003A"}
BodyInputs == {Missing, "hi"}
MediaInputs == {<<>>, <<"not a url">>, <<"not a url", "https://cdn/a.png">>}
ContentSidInputs == {Missing, "HX1"}
Variants == {"messageRoutes", "part_003"}

\* process.env.TWILIO_FROM_NUMBER
TWILIO_FROM_NUMBER == <<"w", "h", "a", "t", "s", "a", "p", "p", ":", "+", "1", "4", "1", "5", "5", "2", "3", "8", "8", "8", "6">>

StatusInputs ==
  {Missing, "queued", "sending", "sent", "delivered", "read", "failed", "undelivered",
   "DELIVERED", "Read", "accepted"}
ErrorCodeInputs == {Missing, "30008"}
ErrorMessageInputs == {Missing, "Unknown destination handset"}

\* the fields of an incoming message: From is the sender's address
FromInputs == {Missing, "whatsapp:+15550001111"}
InboundBodyInputs == {Missing, "hello"}
\* req.body.To of an incoming message: the number of the business
InboundTo == "whatsapp:+14155238886"

\* String.prototype.replace('whatsapp:', '') on the addresses a callback carries
replaceWhatsapp(s) ==
  CASE s = "whatsapp:+15550001111" -> "+15550001111"
    [] OTHER -> s

TwSid(n) == [prefix |-> "tw_", id |-> n]
GwSid(n) == [prefix |-> "SM", id |-> n]
NoSid == [prefix |-> "", id |-> 0]
SidInputs == {NoSid} \cup {GwSid(n) : n \in 1..(MaxRecords + 1)}

\* String.prototype.toLowerCase on the status strings a callback can carry
toLowerCase(s) ==
  CASE s = "DELIVERED" -> "delivered"
    [] s = "Read" -> "read"
    [] OTHER -> s

----------------------------------------------------------------------------
(* State *)

NoResult == [success |-> FALSE, sid |-> NoSid, error |-> [code |-> 0, status |-> 0, message |-> Missing]]
NoResponse == [code |-> 0, success |-> FALSE, status |-> Missing, sid |-> NoSid]

\* from and to of the messageOptions handed to sendWithRetry
NoOptions == [from |-> <<>>, to |-> <<>>]

IdleReq ==
  [pc |-> "idle", route |-> Missing, contactId |-> Missing,
   docId |-> 0, retryCount |-> 0, calls |-> 0, failures |-> <<>>, delays |-> <<>>,
   messageOptions |-> NoOptions,
   result |-> NoResult, response |-> NoResponse, responses |-> 0]

\* the POST /webhook/incoming requests the server processes at a time, and the
\* locals of one of them between its awaits
Handlers == {1, 2}
IdleHook == [pc |-> "idle", MessageSid |-> NoSid, From |-> Missing, Body |-> Missing, message |-> 0]

\* the locals of a POST /webhook/status request between its receipt and its
\* updateOne, kept once it is answered: t is the new Date() of the update it
\* built, concurrent whether the other request was at work when one of the two
\* was received
IdleCallback ==
  [pc |-> "idle", MessageSid |-> NoSid, MessageStatus |-> Missing,
   ErrorCode |-> Missing, ErrorMessage |-> Missing, t |-> Null, concurrent |-> FALSE]

\* the locals of a POST /messages/:messageId/retry request between its awaits,
\* kept once it is answered: message is the status of the document findById
\* returned ("none" without one), code the status code of the answer
IdleRetry ==
  [pc |-> "idle", messageId |-> 0, message |-> "none", result |-> NoResult, code |-> 0]

\* new Message({...}) with the schema defaults of models/Message.js
Message(sid, contactId, direction, messageType, from, to) ==
  [messageSid |-> sid, contactId |-> contactId, direction |-> direction,
   from |-> from, to |-> to,
   status |-> "queued", isRead |-> FALSE, messageType |-> messageType,
   sentAt |-> Null, deliveredAt |-> Null, readAt |-> Null, failedAt |-> Null,
   errorCode |-> NullStr, errorMessage |-> NullStr]

\* a call of formatPhoneNumber on its own: the argument, the value returned
\* and the value returned for that value
\* the last PATCH /read request: its messageIds and contactId, the code of
\* its response and the store it left
NoMark == [messageIds |-> {}, contactId |-> Missing, code |-> 0, after |-> <<>>]

IdleFmt == [pc |-> "idle", number |-> <<>>, formatted |-> <<>>, again |-> <<>>]

\* Socket.IO connections (sockets), the rooms clients ask for and the
\* payloads of a join event: nothing, a room name, or an array of room names
Conns == {"s1", "s2"}
Rooms == {"C2", "C3"}
NoContact == [array |-> FALSE, names |-> {}]
JoinPayloads ==
  {NoContact} \cup {[array |-> FALSE, names |-> {r}] : r \in Rooms}
  \cup {[array |-> TRUE, names |-> Rooms]}

\* the inactivity window and the period of the sweep, in milliseconds
InactivityWindow == 300000
SweepInterval == 60000

\* an entry of connectedClients (absent: registered is FALSE) and a socket of
\* the server: connected, its rooms in the adapter, the broadcasts it received
\* and the reason of its disconnect
NoClient == [registered |-> FALSE, lastActivity |-> 0, rooms |-> {}]
NoSocket ==
  [connected |-> FALSE, rooms |-> {}, inbox |-> {}, reason |-> Missing, heartbeat |-> FALSE]
NoAck == [conn |-> Missing, success |-> FALSE, room |-> NoContact]

InitRealtime ==
  /\ connectedClients = [c \in Conns |-> NoClient]
  /\ sockets = [c \in Conns |-> NoSocket]
  /\ clock = 0
  /\ sweepDue = FALSE
  /\ sent = <<>>
  /\ ack = NoAck

\* variant is the routes file the server mounts; it never changes
Init ==
  /\ variant \in Variants
  /\ store = <<>>
  /\ req = IdleReq
  /\ now = 1
  /\ gwSids = 0
  /\ events = {}
  /\ hookRes = 0
  /\ hooks = [h \in Handlers |-> IdleHook]
  /\ fmt = IdleFmt
  /\ InitRealtime
  /\ marked = NoMark
  /\ callbacks = [h \in Handlers |-> IdleCallback]
  /\ retries = [h \in Handlers |-> IdleRetry]

----------------------------------------------------------------------------
(* Store operations *)

\* Message.updateOne({ _id: messageId }, { $set: updateData })
updateMessageStatus(st, messageId, updateData) ==
  [st EXCEPT ![messageId] = updateData @@ @]

\* Message.updateOne({ messageSid: MessageSid }, { $set: update }): the first
\* matching document is updated
MatchingIds(st, sid) == {i \in 1..Len(st) : st[i].messageSid = sid}

\* Message.findOne({ messageSid: MessageSid }): the document, or 0 for null
findOne(st, sid) ==
  IF MatchingIds(st, sid) = {} THEN 0
  ELSE CHOOSE j \in MatchingIds(st, sid) : \A k \in MatchingIds(st, sid) : j <= k

\* updateOne with the option upsert, which inserts when nothing matches
updateOneBySid_upsert(st, sid, update) ==
  IF MatchingIds(st, sid) = {}
  THEN Append(st, update @@ Message(sid, Missing, "outbound", "text", <<>>, <<>>))
  ELSE LET i == CHOOSE j \in MatchingIds(st, sid) : \A k \in MatchingIds(st, sid) : j <= k
       IN [st EXCEPT ![i] = update @@ @]

updateOneBySid(st, sid, update) ==
  IF MatchingIds(st, sid) = {} THEN st
  ELSE LET i == CHOOSE j \in MatchingIds(st, sid) : \A k \in MatchingIds(st, sid) : j <= k
       IN [st EXCEPT ![i] = update @@ @]

\* a collection without the unique index of messageSid
SidTaken_noIndex(st, sid, docId) == FALSE

\* the unique index of messageSid: a write that would give a second document
\* the messageSid of another one is refused with a duplicate key error
SidTaken(st, sid, docId) == \E i \in 1..Len(st) : i # docId /\ st[i].messageSid = sid

\* io.to(contactId).emit(event, data); throws: the emit raises an error and
\* nothing is sent
emitSocketEvent(ev, contactId, event, docId, status, throws) ==
  IF contactId # Missing /\ ~throws
  THEN ev \cup {[room |-> contactId, event |-> event, docId |-> docId, status |-> status]}
  ELSE ev

\* the outcomes of an emit: only the second routes file emits
EmitThrows == IF variant = "part_003" THEN BOOLEAN ELSE {FALSE}

\* an emitSocketEvent without its try/catch: the error reaches the handler
emitRethrows_uncaught(throws) == throws

\* the catch of emitSocketEvent logs the error and returns
emitRethrows(throws) == FALSE

\* res.status(code).json(...): the handler ends and its locals are released
Respond(r, code, success, status, sid) ==
  [IdleReq EXCEPT !.pc = "done", !.route = r.route, !.contactId = r.contactId,
                  !.docId = r.docId, !.responses = r.responses + 1,
                  !.response = [code |-> code, success |-> success, status |-> status, sid |-> sid]]

\* the response of a handler that has emitted: an error that leaves
\* emitSocketEvent is caught by the handler's own catch block, which answers 500
Answer(r, code, success, status, sid, throws) ==
  IF emitRethrows(throws)
  THEN Respond(r, 500, FALSE, Missing, NoSid)
  ELSE Respond(r, code, success, status, sid)

Reject(route, code) ==
  Respond([IdleReq EXCEPT !.route = route], code, FALSE, Missing, NoSid)

CanStart == req.pc \in {"idle", "done", "stopped"}

\* the from and to of a new record: routes/messageRoutes.js stores them
\* through stripWhatsappPrefix, the second routes file as they are
StoredAddress(address) ==
  IF variant = "part_003" THEN address ELSE stripWhatsappPrefix(address)

FormatFor(number) ==
  IF variant = "part_003" THEN formatPhoneNumber_part003(number) ELSE formatPhoneNumber(number)

----------------------------------------------------------------------------
(* POST /send-message: validation and the initial record *)

\* send-message that goes on to the gateway without having saved the record
SendMessage_unsaved(contactId, to, body, mediaUrl) ==
  /\ CanStart
  /\ contactId # Missing
  /\ FormatFor(to) # NullSeq
  /\ body # Missing
  /\ req' = [IdleReq EXCEPT !.pc = "created", !.route = "send-message",
                            !.contactId = contactId, !.docId = Len(store) + 1]
  /\ UNCHANGED <<variant, store, now, gwSids, events, hookRes, hooks, others>>

SendMessage(contactId, to, body, mediaUrl) ==
  /\ CanStart
  /\ UNCHANGED <<variant, now, gwSids, events, hookRes, hooks, others>>
  /\ LET formattedTo == FormatFor(to)
         fromNumber == FormatFor(TWILIO_FROM_NUMBER)
         validMediaUrls == validateMediaUrls(mediaUrl)
         docId == Len(store) + 1
     IN IF contactId = Missing \/ to = <<>> \/ (body = Missing /\ mediaUrl = <<>>)
        THEN req' = Reject("send-message", 400) /\ store' = store
        ELSE IF formattedTo = NullSeq
        THEN req' = Reject("send-message", 400) /\ store' = store
        ELSE IF fromNumber = NullSeq
        THEN req' = Reject("send-message", 500) /\ store' = store
        ELSE IF mediaUrl # <<>> /\ validMediaUrls = <<>>
        THEN req' = Reject("send-message", 400) /\ store' = store
        ELSE IF body = Missing
        THEN req' = Reject("send-message", 500) /\ store' = store
        ELSE /\ Len(store) < MaxRecords
             /\ store' = Append(store,
                  Message(TwSid(docId), contactId, "outbound",
                          IF validMediaUrls # <<>> THEN "media" ELSE "text",
                          StoredAddress(fromNumber), StoredAddress(formattedTo)))
             /\ req' = [IdleReq EXCEPT !.pc = "created", !.route = "send-message",
                                       !.contactId = contactId,
                                       !.docId = docId,
                                       !.messageOptions = [from |-> fromNumber, to |-> formattedTo]]

(* POST /send-template: validation and the initial record *)

SendTemplate(contactId, to, contentSid) ==
  /\ CanStart
  /\ UNCHANGED <<variant, now, gwSids, events, hookRes, hooks, others>>
  /\ LET formattedTo == FormatFor(to)
         fromNumber == FormatFor(TWILIO_FROM_NUMBER)
         docId == Len(store) + 1
     IN IF contactId = Missing \/ to = <<>> \/ contentSid = Missing
        THEN req' = Reject("send-template", 400) /\ store' = store
        ELSE IF formattedTo = NullSeq
        THEN req' = Reject("send-template", 400) /\ store' = store
        ELSE IF fromNumber = NullSeq
        THEN req' = Reject("send-template", 500) /\ store' = store
        ELSE /\ Len(store) < MaxRecords
             /\ store' = Append(store,
                  Message(TwSid(docId), contactId, "outbound", "template",
                          StoredAddress(fromNumber), StoredAddress(formattedTo)))
             /\ req' = [IdleReq EXCEPT !.pc = "created", !.route = "send-template",
                                       !.contactId = contactId,
                                       !.docId = docId,
                                       !.messageOptions =
                                          IF variant = "part_003"
                                          THEN [from |-> fromNumber, to |-> formattedTo]
                                          ELSE [from |-> stripWhatsappPrefix(fromNumber),
                                                to |-> stripWhatsappPrefix(formattedTo)]]

----------------------------------------------------------------------------
(* sendWithRetry *)

\* isRetryable that takes every failure for retryable
isRetryable_anyError(error) == error.code >= 0

isRetryable(error) == error.code \in retryableErrors \/ error.status >= 500

RECURSIVE pow2(_)
pow2(n) == IF n = 0 THEN 1 ELSE 2 * pow2(n - 1)

\* entry of sendWithRetry: twilioClient.messages.create(messageOptions) is
\* issued, on the first call and on each recursive call after the delay
sendWithRetry ==
  /\ req.pc \in {"created", "backoff"}
  /\ req' = [req EXCEPT !.pc = "calling",
                        !.calls = @ + 1,
                        !.retryCount = IF req.pc = "backoff" THEN @ + 1 ELSE @]
  /\ UNCHANGED <<variant, store, now, gwSids, events, hookRes, hooks, others>>

\* the create call resolves with a message
createResolves ==
  /\ req.pc = "calling"
  /\ gwSids' = gwSids + 1
  /\ req' = [req EXCEPT !.pc = "returned",
                        !.result = [success |-> TRUE, sid |-> GwSid(gwSids + 1),
                                    error |-> NoResult.error]]
  /\ UNCHANGED <<variant, store, now, events, hookRes, hooks, others>>

\* the catch block with a retry budget that is one short
createRejects_oneShort(error) ==
  /\ req.pc = "calling"
  /\ IF req.retryCount < maxRetries - 1 /\ isRetryable(error)
     THEN req' = [req EXCEPT !.pc = "backoff",
                             !.failures = Append(@, error),
                             !.delays = Append(@, pow2(req.retryCount) * 1000)]
     ELSE req' = [req EXCEPT !.pc = "returned",
                             !.failures = Append(@, error),
                             !.result = [success |-> FALSE, sid |-> NoSid, error |-> error]]
  /\ UNCHANGED <<variant, store, now, gwSids, events, hookRes, hooks, others>>

\* the catch block that retries a retryable failure whatever retryCount is
createRejects_unbounded(error) ==
  /\ req.pc = "calling"
  /\ IF isRetryable(error)
     THEN req' = [req EXCEPT !.pc = "backoff",
                             !.failures = Append(@, error),
                             !.delays = Append(@, pow2(req.retryCount) * 1000)]
     ELSE req' = [req EXCEPT !.pc = "returned",
                             !.failures = Append(@, error),
                             !.result = [success |-> FALSE, sid |-> NoSid, error |-> error]]
  /\ UNCHANGED <<variant, store, now, gwSids, events, hookRes, hooks, others>>

\* the catch block that surfaces the first failure it has seen
createRejects_firstFailure(error) ==
  /\ req.pc = "calling"
  /\ IF req.retryCount < maxRetries /\ isRetryable(error)
     THEN req' = [req EXCEPT !.pc = "backoff",
                             !.failures = Append(@, error),
                             !.delays = Append(@, pow2(req.retryCount) * 1000)]
     ELSE req' = [req EXCEPT !.pc = "returned",
                             !.failures = Append(@, error),
                             !.result = [success |-> FALSE, sid |-> NoSid,
                                         error |-> Append(req.failures, error)[1]]]
  /\ UNCHANGED <<variant, store, now, gwSids, events, hookRes, hooks, others>>

\* the catch block with a delay that grows by one second per retry
createRejects_linearDelay(error) ==
  /\ req.pc = "calling"
  /\ IF req.retryCount < maxRetries /\ isRetryable(error)
     THEN req' = [req EXCEPT !.pc = "backoff",
                             !.failures = Append(@, error),
                             !.delays = Append(@, (req.retryCount + 1) * 1000)]
     ELSE req' = [req EXCEPT !.pc = "returned",
                             !.failures = Append(@, error),
                             !.result = [success |-> FALSE, sid |-> NoSid, error |-> error]]
  /\ UNCHANGED <<variant, store, now, gwSids, events, hookRes, hooks, others>>

\* the create call rejects: the catch block of sendWithRetry
createRejects(error) ==
  /\ req.pc = "calling"
  /\ IF req.retryCount < maxRetries /\ isRetryable(error)
     THEN req' = [req EXCEPT !.pc = "backoff",
                             !.failures = Append(@, error),
                             !.delays = Append(@, pow2(req.retryCount) * 1000)]
     ELSE req' = [req EXCEPT !.pc = "returned",
                             !.failures = Append(@, error),
                             !.result = [success |-> FALSE, sid |-> NoSid, error |-> error]]
  /\ UNCHANGED <<variant, store, now, gwSids, events, hookRes, hooks, others>>

----------------------------------------------------------------------------
(* The record update and the response after sendWithRetry has returned *)

OrDefault(v, d) == IF v = Missing THEN d ELSE v
CodeOrDefault(code, d) == IF code = 0 THEN d ELSE ToString(code)

\* send-message that answers 202 whatever sendWithRetry returned
SendMessageResult_always202 ==
  /\ req.pc = "returned"
  /\ req.route = "send-message"
  /\ UNCHANGED <<variant, now, gwSids, events, hookRes, hooks, others>>
  /\ store' = [store EXCEPT ![req.docId].status = IF req.result.success THEN "sent" ELSE "failed"]
  /\ req' = Respond(req, 202, TRUE, "sent", req.result.sid)

\* the handler after sendWithRetry has returned; throws: the emit raises an error
SendMessageOutcome(throws) ==
  /\ req.pc = "returned"
  /\ req.route = "send-message"
  /\ UNCHANGED <<variant, now, gwSids, hookRes, hooks, others>>
  /\ IF req.result.success /\ SidTaken(store, req.result.sid, req.docId)
     THEN /\ store' = store
          /\ events' = events
          /\ req' = Respond(req, 500, FALSE, Missing, NoSid)
     ELSE IF req.result.success
     THEN /\ store' = updateMessageStatus(store, req.docId,
                        [messageSid |-> req.result.sid, status |-> "sent", sentAt |-> now])
          /\ events' = IF variant = "part_003"
                       THEN emitSocketEvent(events, req.contactId, "new-message",
                                            req.docId, "sent", throws)
                       ELSE events
          /\ req' = Answer(req, 202, TRUE, "sent", req.result.sid, throws)
     ELSE /\ store' = updateMessageStatus(store, req.docId,
                        [status |-> "failed",
                         errorCode |-> CodeOrDefault(req.result.error.code, "UNKNOWN_ERROR"),
                         errorMessage |-> OrDefault(req.result.error.message, "Unknown error occurred"),
                         failedAt |-> now])
          /\ events' = IF variant = "part_003"
                       THEN emitSocketEvent(events, req.contactId, "message-status-update",
                                            req.docId, "failed", throws)
                       ELSE events
          /\ req' = Answer(req, 500, FALSE, Missing, NoSid, throws)

SendMessageResult == \E throws \in EmitThrows : SendMessageOutcome(throws)

\* $set of the failure branch of send-template in routes/messageRoutes.js:
\* errorCode: error.code is left out of the update when the error has no code
TemplateFailureUpdate(error, t) ==
  IF error.code = 0
  THEN [status |-> "failed", errorMessage |-> error.message, failedAt |-> t]
  ELSE [status |-> "failed", errorCode |-> ToString(error.code),
        errorMessage |-> error.message, failedAt |-> t]

\* send-template whose catch of a failed fetch or update only logs the error
SendTemplateResult_silentCatch(fetchOk) ==
  /\ req.pc = "returned"
  /\ req.route = "send-template"
  /\ UNCHANGED <<variant, now, gwSids, hookRes, hooks, others>>
  /\ IF req.result.success
     THEN IF fetchOk /\ ~SidTaken(store, req.result.sid, req.docId)
          THEN /\ store' = updateMessageStatus(store, req.docId,
                             [messageSid |-> req.result.sid, status |-> "sent", sentAt |-> now])
               /\ \E throws \in EmitThrows :
                    /\ events' = IF variant = "part_003"
                                 THEN emitSocketEvent(events, req.contactId, "new-message",
                                                      req.docId, "sent", throws)
                                 ELSE events
                    \* an error that left emitSocketEvent would be caught by the
                    \* catch (fetchError) of the second routes file, which answers 202
                    /\ req' = IF variant = "part_003"
                              THEN Respond(req, 202, TRUE, "sent", req.result.sid)
                              ELSE Answer(req, 202, TRUE, "sent", req.result.sid, throws)
          ELSE /\ store' = store
               /\ events' = events
               /\ req' = [IdleReq EXCEPT !.pc = "done", !.route = req.route,
                                         !.contactId = req.contactId, !.docId = req.docId]
     ELSE /\ fetchOk
          /\ store' = updateMessageStatus(store, req.docId,
                        IF variant = "part_003"
                        THEN [status |-> "failed",
                              errorCode |-> CodeOrDefault(req.result.error.code, "UNKNOWN_ERROR"),
                              errorMessage |-> OrDefault(req.result.error.message, "Unknown error occurred"),
                              failedAt |-> now]
                        ELSE TemplateFailureUpdate(req.result.error, now))
          /\ \E throws \in EmitThrows :
               /\ events' = IF variant = "part_003"
                            THEN emitSocketEvent(events, req.contactId, "message-status-update",
                                                 req.docId, "failed", throws)
                            ELSE events
               /\ req' = Answer(req, 500, FALSE, Missing, NoSid, throws)

SendTemplateResult(fetchOk) ==
  /\ req.pc = "returned"
  /\ req.route = "send-template"
  /\ UNCHANGED <<variant, now, gwSids, hookRes, hooks, others>>
  /\ IF req.result.success
     THEN IF fetchOk /\ ~SidTaken(store, req.result.sid, req.docId)
          THEN /\ store' = updateMessageStatus(store, req.docId,
                             [messageSid |-> req.result.sid, status |-> "sent", sentAt |-> now])
               /\ \E throws \in EmitThrows :
                    /\ events' = IF variant = "part_003"
                                 THEN emitSocketEvent(events, req.contactId, "new-message",
                                                      req.docId, "sent", throws)
                                 ELSE events
                    \* an error that left emitSocketEvent would be caught by the
                    \* catch (fetchError) of the second routes file, which answers 202
                    /\ req' = IF variant = "part_003"
                              THEN Respond(req, 202, TRUE, "sent", req.result.sid)
                              ELSE Answer(req, 202, TRUE, "sent", req.result.sid, throws)
          ELSE /\ store' = store
               /\ events' = events
               /\ req' = IF variant = "part_003"
                         THEN Respond(req, 202, TRUE, "sent", req.result.sid)
                         ELSE Respond(req, 500, FALSE, Missing, NoSid)
     ELSE /\ fetchOk
          /\ store' = updateMessageStatus(store, req.docId,
                        IF variant = "part_003"
                        THEN [status |-> "failed",
                              errorCode |-> CodeOrDefault(req.result.error.code, "UNKNOWN_ERROR"),
                              errorMessage |-> OrDefault(req.result.error.message, "Unknown error occurred"),
                              failedAt |-> now]
                        ELSE TemplateFailureUpdate(req.result.error, now))
          /\ \E throws \in EmitThrows :
               /\ events' = IF variant = "part_003"
                            THEN emitSocketEvent(events, req.contactId, "message-status-update",
                                                 req.docId, "failed", throws)
                            ELSE events
               /\ req' = Answer(req, 500, FALSE, Missing, NoSid, throws)

\* the process stops while a submission is in flight; the store is durable
ProcessStop ==
  /\ req.pc \in {"created", "calling", "backoff", "returned"}
  /\ req' = [IdleReq EXCEPT !.pc = "stopped", !.route = req.route, !.contactId = req.contactId,
                            !.docId = req.docId, !.calls = req.calls]
  /\ UNCHANGED <<variant, store, now, gwSids, events, hookRes, hooks, others>>

----------------------------------------------------------------------------
(* POST /webhook/status *)

\* the update that writes every lifecycle timestamp, null where the status of
\* the callback has none
StatusUpdate_allTimestamps(MessageStatus, ErrorCode, ErrorMessage, t) ==
  [status |-> toLowerCase(MessageStatus),
   sentAt |-> Null,
   deliveredAt |-> IF MessageStatus = "delivered" THEN t ELSE Null,
   readAt |-> IF MessageStatus = "read" THEN t ELSE Null,
   failedAt |-> IF MessageStatus \in FailureStatuses THEN t ELSE Null]

StatusUpdate(MessageStatus, ErrorCode, ErrorMessage, t) ==
  [status |-> toLowerCase(MessageStatus)]
  @@ (IF MessageStatus = "delivered" THEN [deliveredAt |-> t] ELSE <<>>)
  @@ (IF MessageStatus = "read" THEN [readAt |-> t, isRead |-> TRUE] ELSE <<>>)
  @@ (IF MessageStatus \in FailureStatuses
      THEN [failedAt |-> t,
            errorCode |-> OrDefault(ErrorCode, "UNKNOWN"),
            errorMessage |-> OrDefault(ErrorMessage, "Delivery failed")]
      ELSE <<>>)

StatusWebhook(MessageSid, MessageStatus, ErrorCode, ErrorMessage) ==
  /\ UNCHANGED <<variant, req, now, gwSids, events, hooks, others>>
  /\ IF MessageSid = NoSid \/ MessageStatus = Missing
     THEN /\ hookRes' = 400
          /\ store' = store
     ELSE /\ store' = updateOneBySid(store, MessageSid,
                        StatusUpdate(MessageStatus, ErrorCode, ErrorMessage, now))
          /\ hookRes' = 200

\* POST /webhook/status up to the await of Message.updateOne: the update is
\* built, with its dates, before the store is asked. The gateway reports on
\* the sids it has issued.
StatusReceive(h, MessageSid, MessageStatus, ErrorCode, ErrorMessage) ==
  /\ callbacks[h].pc \in {"idle", "answered"}
  /\ MessageSid = NoSid \/ MessageSid.id <= gwSids
  /\ UNCHANGED <<variant, store, req, now, gwSids, events, hooks, fmt, realtime, marked, retries>>
  /\ IF MessageSid = NoSid \/ MessageStatus = Missing
     THEN /\ hookRes' = 400
          /\ callbacks' = callbacks
     ELSE /\ hookRes' = hookRes
          /\ LET atWork == {g \in Handlers \ {h} : callbacks[g].pc = "received"}
             IN callbacks' = [g \in Handlers |->
                  IF g = h
                  THEN [pc |-> "received", MessageSid |-> MessageSid,
                        MessageStatus |-> MessageStatus, ErrorCode |-> ErrorCode,
                        ErrorMessage |-> ErrorMessage, t |-> now, concurrent |-> atWork # {}]
                  ELSE IF g \in atWork
                  THEN [callbacks[g] EXCEPT !.concurrent = TRUE]
                  ELSE callbacks[g]]

\* the updateOne of the request and its answer
StatusApply(h) ==
  /\ callbacks[h].pc = "received"
  /\ store' = updateOneBySid(store, callbacks[h].MessageSid,
                StatusUpdate(callbacks[h].MessageStatus, callbacks[h].ErrorCode,
                             callbacks[h].ErrorMessage, callbacks[h].t))
  /\ hookRes' = 200
  /\ callbacks' = [callbacks EXCEPT ![h].pc = "answered"]
  /\ UNCHANGED <<variant, req, now, gwSids, events, hooks, fmt, realtime, marked, retries>>

----------------------------------------------------------------------------
(* POST /messages/:messageId/retry, a route of the second routes file *)

\* an error of the gateway that sendWithRetry does not retry
NonRetryableError == [code |-> 21211, status |-> 400, message |-> "Invalid To number"]

\* a messageId that is no ObjectId: Message.findById rejects with a CastError
BadId == -1

\* the ids of a retry: the first record, an id no record has, a malformed id
RetryIdInputs == {1, MaxRecords + 2, BadId}

\* the handler up to the await of Message.findById
RetryFind(h, messageId) ==
  /\ variant = "part_003"
  /\ retries[h].pc \in {"idle", "answered"}
  /\ retries' = [retries EXCEPT ![h] =
       IF messageId = BadId
       THEN [IdleRetry EXCEPT !.pc = "answered", !.messageId = messageId, !.code = 500]
       ELSE [IdleRetry EXCEPT !.pc = "found", !.messageId = messageId,
                              !.message = IF messageId \in 1..Len(store)
                                          THEN store[messageId].status
                                          ELSE "none"]]
  /\ UNCHANGED <<variant, store, req, now, gwSids, events, hookRes, hooks,
                 fmt, realtime, marked, callbacks>>

\* the checks of the document found, on the status it had when it was read,
\* and the reset of the record to 'queued'
RetryCheck(h) ==
  /\ retries[h].pc = "found"
  /\ UNCHANGED <<variant, req, now, gwSids, events, hookRes, hooks,
                 fmt, realtime, marked, callbacks>>
  /\ IF retries[h].message = "none"
     THEN /\ retries' = [retries EXCEPT ![h].pc = "answered", ![h].code = 404]
          /\ store' = store
     ELSE IF retries[h].message # "failed"
     THEN /\ retries' = [retries EXCEPT ![h].pc = "answered", ![h].code = 400]
          /\ store' = store
     ELSE /\ store' = updateMessageStatus(store, retries[h].messageId,
                        [status |-> "queued", errorCode |-> NullStr,
                         errorMessage |-> NullStr, failedAt |-> Null])
          /\ retries' = [retries EXCEPT ![h].pc = "queued"]

\* sendWithRetry(messageOptions) of the retry returns: the gateway accepted the
\* submission under a new sid, or the chain of calls ended with an error
RetrySent(h, success) ==
  /\ retries[h].pc = "queued"
  /\ success => gwSids <= MaxRecords + 1
  /\ gwSids' = IF success THEN gwSids + 1 ELSE gwSids
  /\ retries' = [retries EXCEPT ![h].pc = "returned",
                                ![h].result =
                                  IF success
                                  THEN [NoResult EXCEPT !.success = TRUE, !.sid = GwSid(gwSids + 1)]
                                  ELSE [NoResult EXCEPT !.error = NonRetryableError]]
  /\ UNCHANGED <<variant, store, req, now, events, hookRes, hooks,
                 fmt, realtime, marked, callbacks>>

\* the update of the record with the outcome, the event and the answer
RetryResult(h) ==
  /\ retries[h].pc = "returned"
  /\ UNCHANGED <<variant, req, now, gwSids, hookRes, hooks, fmt, realtime, marked, callbacks>>
  /\ LET r == retries[h].result
         id == retries[h].messageId
     IN IF r.success /\ SidTaken(store, r.sid, id)
        THEN /\ store' = store
             /\ events' = events
             /\ retries' = [retries EXCEPT ![h].pc = "answered", ![h].code = 500]
        ELSE IF r.success
        THEN /\ store' = updateMessageStatus(store, id,
                           [messageSid |-> r.sid, status |-> "sent", sentAt |-> now])
             /\ \E throws \in EmitThrows :
                  events' = emitSocketEvent(events, store[id].contactId,
                                            "message-retry-success", id, "sent", throws)
             /\ retries' = [retries EXCEPT ![h].pc = "answered", ![h].code = 200]
        ELSE /\ store' = updateMessageStatus(store, id,
                           [status |-> "failed",
                            errorCode |-> CodeOrDefault(r.error.code, "UNKNOWN_ERROR"),
                            errorMessage |-> OrDefault(r.error.message, "Unknown error occurred"),
                            failedAt |-> now])
             /\ \E throws \in EmitThrows :
                  events' = emitSocketEvent(events, store[id].contactId,
                                            "message-retry-failed", id, "failed", throws)
             /\ retries' = [retries EXCEPT ![h].pc = "answered", ![h].code = 500]

----------------------------------------------------------------------------
(* POST /webhook/incoming *)

\* the handler with the check of MessageSid left out
IncomingWebhook_unchecked(h, MessageSid, From, Body) ==
  /\ hooks[h].pc = "idle"
  /\ UNCHANGED <<variant, store, req, now, gwSids, events, others>>
  /\ IF From = Missing
     THEN hookRes' = 500 /\ hooks' = hooks
     ELSE /\ hookRes' = hookRes
          /\ hooks' = [hooks EXCEPT ![h] =
                         [pc |-> "found", MessageSid |-> MessageSid, From |-> From,
                          Body |-> Body, message |-> findOne(store, MessageSid)]]

\* the handler up to the await of Message.findOne: 400 without MessageSid,
\* 500 when From.replace throws on a missing From (To likewise)
IncomingWebhook(h, MessageSid, From, Body) ==
  /\ hooks[h].pc = "idle"
  /\ UNCHANGED <<variant, store, req, now, gwSids, events, others>>
  /\ IF MessageSid = NoSid
     THEN hookRes' = 400 /\ hooks' = hooks
     ELSE IF From = Missing
     THEN hookRes' = 500 /\ hooks' = hooks
     ELSE /\ findOne(store, MessageSid) # 0 \/ Len(store) < MaxRecords + 1
          /\ hookRes' = hookRes
          /\ hooks' = [hooks EXCEPT ![h] =
                         [pc |-> "found", MessageSid |-> MessageSid, From |-> From,
                          Body |-> Body, message |-> findOne(store, MessageSid)]]

\* the handler that writes the read flag again on a repeated delivery
IncomingSave_resave(h) ==
  /\ hooks[h].pc = "found"
  /\ hooks' = [hooks EXCEPT ![h] = IdleHook]
  /\ UNCHANGED <<variant, req, now, gwSids, events, others>>
  /\ IF hooks[h].message = 0
     THEN IF hooks[h].Body = Missing \/ SidTaken(store, hooks[h].MessageSid, 0)
          THEN store' = store /\ hookRes' = 500
          ELSE /\ Len(store) < MaxRecords + 1
               /\ store' = Append(store,
                    [Message(hooks[h].MessageSid, replaceWhatsapp(hooks[h].From), "inbound", "text",
                             hooks[h].From, InboundTo)
                       EXCEPT !.status = "received"])
               /\ hookRes' = 200
     ELSE /\ store' = updateOneBySid(store, hooks[h].MessageSid,
                        [status |-> "received", isRead |-> FALSE, readAt |-> Null])
          /\ hookRes' = 200

\* the handler after findOne has resolved: message.save() of a new inbound
\* record (refused when message is empty or the messageSid is taken), or
\* updateOne of the status of the record found
IncomingSave(h) ==
  /\ hooks[h].pc = "found"
  /\ hooks' = [hooks EXCEPT ![h] = IdleHook]
  /\ UNCHANGED <<variant, req, now, gwSids, events, others>>
  /\ IF hooks[h].message = 0
     THEN IF hooks[h].Body = Missing \/ SidTaken(store, hooks[h].MessageSid, 0)
          THEN store' = store /\ hookRes' = 500
          ELSE /\ Len(store) < MaxRecords + 1
               /\ store' = Append(store,
                    [Message(hooks[h].MessageSid, replaceWhatsapp(hooks[h].From), "inbound", "text",
                             hooks[h].From, InboundTo)
                       EXCEPT !.status = "received"])
               /\ hookRes' = 200
     ELSE /\ store' = updateOneBySid(store, hooks[h].MessageSid, [status |-> "received"])
          /\ hookRes' = 200

----------------------------------------------------------------------------
(* PATCH /read *)

\* the ids and contactIds of a mark-read request; no messageIds is {}
ReadIdInputs == {{}, {1}}
ReadContactInputs == {Missing, replaceWhatsapp("whatsapp:+15550001111")}

\* the query of the request: the ids when given, else the unread inbound
\* messages of the contact
ReadQuery(st, messageIds, contactId) ==
  IF messageIds # {}
  THEN {i \in 1..Len(st) : i \in messageIds}
  ELSE {i \in 1..Len(st) : /\ st[i].contactId = contactId
                           /\ st[i].direction = "inbound"
                           /\ ~st[i].isRead}

\* Message.updateMany(query, {$set: {isRead: true, readAt: new Date(), status: 'read'}})
updateManyRead(st, matched, t) ==
  [i \in 1..Len(st) |->
     IF i \in matched
     THEN [st[i] EXCEPT !.isRead = TRUE, !.readAt = t, !.status = "read"]
     ELSE st[i]]

MarkRead(messageIds, contactId) ==
  /\ UNCHANGED <<variant, req, now, gwSids, hookRes, hooks, rest>>
  /\ LET matched == ReadQuery(store, messageIds, contactId)
         code == IF messageIds = {} /\ contactId = Missing THEN 400
                 ELSE IF matched = {} THEN 404
                 ELSE 200
     IN /\ store' = IF code = 200 THEN updateManyRead(store, matched, now) ELSE store
        /\ \E throws \in EmitThrows :
             events' = IF code = 200 /\ variant = "part_003"
                       THEN emitSocketEvent(events, contactId, "messages-read", 0, "read", throws)
                       ELSE events
        /\ marked' = [messageIds |-> messageIds, contactId |-> contactId, code |-> code,
                      after |-> store']

----------------------------------------------------------------------------
(* The Socket.IO handler: utils/socket.js *)

http == <<variant, store, req, now, gwSids, events, hookRes, hooks, fmt, marked, callbacks, retries>>

\* io.on('connection'): a new socket and its entry in connectedClients
Connect(c) ==
  /\ ~sockets[c].connected
  /\ sockets' = [sockets EXCEPT ![c] = [NoSocket EXCEPT !.connected = TRUE,
                                                         !.heartbeat = TRUE]]
  /\ connectedClients' = [connectedClients EXCEPT ![c] =
                            [registered |-> TRUE, lastActivity |-> clock, rooms |-> {}]]
  /\ UNCHANGED <<http, clock, sweepDue, sent, ack>>

\* socket.leave(room) for every entry of clientInfo.rooms: an entry that is an
\* array names no room of the adapter, so nothing is left for it
LeaveAll(socketRooms, recorded) ==
  socketRooms \ UNION {p.names : p \in {q \in recorded : ~q.array}}

\* the join handler that leaves the recorded rooms before it checks contactId
Join_leavesFirst(c, contactId) ==
  /\ sockets[c].connected
  /\ UNCHANGED <<http, clock, sweepDue, sent>>
  /\ IF contactId = NoContact
     THEN /\ ack' = [conn |-> c, success |-> FALSE, room |-> NoContact]
          /\ sockets' = [sockets EXCEPT ![c].rooms = LeaveAll(@, connectedClients[c].rooms)]
          /\ connectedClients' = [connectedClients EXCEPT ![c].rooms = {}]
     ELSE /\ sockets' = [sockets EXCEPT ![c].rooms =
                            LeaveAll(@, connectedClients[c].rooms) \cup contactId.names]
          /\ connectedClients' = [connectedClients EXCEPT ![c].rooms = {contactId},
                                                          ![c].lastActivity = clock]
          /\ ack' = [conn |-> c, success |-> TRUE, room |-> contactId]

\* socket.on('join'): socket.join(contactId) takes a room or an array of rooms
Join(c, contactId) ==
  /\ sockets[c].connected
  /\ UNCHANGED <<http, clock, sweepDue, sent>>
  /\ IF contactId = NoContact
     THEN /\ ack' = [conn |-> c, success |-> FALSE, room |-> NoContact]
          /\ UNCHANGED <<sockets, connectedClients>>
     ELSE /\ sockets' = [sockets EXCEPT ![c].rooms =
                            LeaveAll(@, connectedClients[c].rooms) \cup contactId.names]
          /\ connectedClients' = [connectedClients EXCEPT ![c].rooms = {contactId},
                                                          ![c].lastActivity = clock]
          /\ ack' = [conn |-> c, success |-> TRUE, room |-> contactId]

\* socket.on('pong')
Pong(c) ==
  /\ sockets[c].connected
  /\ connectedClients' = [connectedClients EXCEPT ![c].lastActivity = clock]
  /\ UNCHANGED <<http, sockets, clock, sweepDue, sent, ack>>

\* a socket closes: it leaves its rooms, and socket.on('disconnect') deletes
\* its entry of connectedClients
Closed(socks, c, reason) ==
  [socks EXCEPT ![c] = [NoSocket EXCEPT !.reason = reason, !.heartbeat = socks[c].heartbeat]]

\* clearInterval(heartbeatInterval)
clearHeartbeat(socks, c) == [socks EXCEPT ![c].heartbeat = FALSE]

\* a disconnect handler that leaves the entry in the registry
deleteClient_kept(clients, c) == clients

\* connectedClients.delete(socket.id)
deleteClient(clients, c) == [clients EXCEPT ![c] = NoClient]

\* getConnectedClients: () => connectedClients.size
getConnectedClients == Cardinality({c \in Conns : connectedClients[c].registered})

Disconnect(c) ==
  /\ sockets[c].connected
  /\ sockets' = clearHeartbeat(Closed(sockets, c, "transport close"), c)
  /\ connectedClients' = deleteClient(connectedClients, c)
  /\ UNCHANGED <<http, clock, sweepDue, sent, ack>>

\* the test of the sweep with the window itself taken for inactivity
Inactive_atWindow(client, t) == client.registered /\ t - client.lastActivity >= InactivityWindow

\* now - client.lastActivity > 300000
Inactive(client, t) == client.registered /\ t - client.lastActivity > InactivityWindow

\* the callback of setInterval(..., 60000): socket.disconnect(true) for every
\* inactive client whose socket exists
Sweep ==
  /\ sweepDue
  /\ sweepDue' = FALSE
  /\ LET gone == {c \in Conns : Inactive(connectedClients[c], clock) /\ sockets[c].connected}
     IN /\ sockets' = [c \in Conns |->
                         IF c \in gone
                         THEN clearHeartbeat(Closed(sockets, c, "forced close"), c)[c]
                         ELSE sockets[c]]
        /\ connectedClients' = [c \in Conns |->
                                  IF c \in gone
                                  THEN deleteClient(connectedClients, c)[c]
                                  ELSE connectedClients[c]]
  /\ UNCHANGED <<http, clock, sent, ack>>

\* one period of the sweep passes; its callback runs before the next passes
Advance ==
  /\ ~sweepDue
  /\ clock < MaxSweeps * SweepInterval
  /\ clock' = clock + SweepInterval
  /\ sweepDue' = TRUE
  /\ UNCHANGED <<http, connectedClients, sockets, sent, ack>>

\* a broadcast that reaches every connected socket
Broadcast_toAll(room) ==
  /\ Len(sent) < MaxBroadcasts
  /\ sent' = Append(sent, room)
  /\ sockets' = [c \in Conns |->
                   IF sockets[c].connected
                   THEN [sockets[c] EXCEPT !.inbox = @ \cup {Len(sent) + 1}]
                   ELSE sockets[c]]
  /\ UNCHANGED <<http, connectedClients, clock, sweepDue, ack>>

\* io.to(room).emit(event, data): broadcastToRoom and emitSocketEvent
Broadcast(room) ==
  /\ Len(sent) < MaxBroadcasts
  /\ sent' = Append(sent, room)
  /\ sockets' = [c \in Conns |->
                   IF sockets[c].connected /\ room \in sockets[c].rooms
                   THEN [sockets[c] EXCEPT !.inbox = @ \cup {Len(sent) + 1}]
                   ELSE sockets[c]]
  /\ UNCHANGED <<http, connectedClients, clock, sweepDue, ack>>

----------------------------------------------------------------------------
(* The clock *)

Tick ==
  /\ now < MaxTime
  /\ now' = now + 1
  /\ UNCHANGED <<variant, store, req, gwSids, events, hookRes, hooks, others>>

----------------------------------------------------------------------------

\* the callbacks the gateway sends for one message: error fields accompany
\* the failure statuses only
CallbackInputs ==
  {<<s, Missing, Missing>> : s \in StatusInputs}
  \cup {<<s, ec, em>> : s \in FailureStatuses, ec \in ErrorCodeInputs, em \in ErrorMessageInputs}

Submission ==
  \/ \E c \in ContactInputs, t \in ToInputs, b \in BodyInputs, m \in MediaInputs :
       SendMessage(c, t, b, m)
  \/ \E c \in ContactInputs, t \in ToInputs, cs \in ContentSidInputs :
       SendTemplate(c, t, cs)
  \/ sendWithRetry
  \/ createResolves
  \/ \E e \in GatewayErrors : createRejects(e)
  \/ SendMessageResult
  \/ \E ok \in BOOLEAN : SendTemplateResult(ok)
  \/ ProcessStop

Incoming ==
  \/ \E h \in Handlers, sid \in SidInputs, f \in FromInputs, b \in InboundBodyInputs :
       IncomingWebhook(h, sid, f, b)
  \/ \E h \in Handlers : IncomingSave(h)

Realtime ==
  \/ \E c \in Conns : Connect(c)
  \/ \E c \in Conns, p \in JoinPayloads : Join(c, p)
  \/ \E c \in Conns : Pong(c)
  \/ \E c \in Conns : Disconnect(c)
  \/ \E r \in Rooms : Broadcast(r)
  \/ Advance
  \/ Sweep

Callbacks ==
  \/ \E h \in Handlers, sid \in SidInputs, cb \in CallbackInputs :
       StatusReceive(h, sid, cb[1], cb[2], cb[3])
  \/ \E h \in Handlers : StatusApply(h)

Retrying ==
  \/ \E h \in Handlers, id \in RetryIdInputs : RetryFind(h, id)
  \/ \E h \in Handlers : RetryCheck(h)
  \/ \E h \in Handlers, ok \in BOOLEAN : RetrySent(h, ok)
  \/ \E h \in Handlers : RetryResult(h)

Reading == \E ids \in ReadIdInputs, c \in ReadContactInputs : MarkRead(ids, c)

Next ==
  \/ Submission
  \/ Callbacks
  \/ Retrying
  \/ Reading
  \/ \E sid \in SidInputs, cb \in CallbackInputs : StatusWebhook(sid, cb[1], cb[2], cb[3])
  \/ Incoming
  \/ Realtime
  \/ Tick

Spec == Init /\ [][Next]_vars

\* The delivery pipeline on its own: every submission input and every gateway
\* outcome, no status callbacks
NextDelivery ==
  \/ Submission
  \/ Tick

SpecDelivery == Init /\ [][NextDelivery]_vars

\* The delivery pipeline with its scheduling: the timer of a backoff fires and
\* the recursive call is made, and every create call settles (the gateway
\* client resolves or rejects the promise of each request)
SpecDeliveryFair ==
  /\ SpecDelivery
  /\ WF_vars(sendWithRetry)
  /\ WF_vars(createResolves \/ \E e \in GatewayErrors : createRejects(e))

\* The status reconciler: text submissions that the gateway accepts or refuses
\* at once create the records, and the callbacks address the first gateway
\* sid or an untracked one
ReconcileSids == {NoSid, GwSid(1), GwSid(MaxRecords + 1)}

NextReconcile ==
  \/ SendMessage("003A", PhoneUS, "hi", <<>>)
  \/ sendWithRetry
  \/ createResolves
  \/ createRejects(NonRetryableError)
  \/ SendMessageOutcome(FALSE)
  \/ \E sid \in ReconcileSids, cb \in CallbackInputs : StatusWebhook(sid, cb[1], cb[2], cb[3])
  \/ Tick

SpecReconcile == Init /\ [][NextReconcile]_vars

\* formatPhoneNumber on its own: one call on an argument, then a call on the
\* value it returned
InitFormat ==
  /\ variant \in Variants
  /\ store = <<>>
  /\ req = IdleReq
  /\ now = 1
  /\ gwSids = 0
  /\ events = {}
  /\ hookRes = 0
  /\ hooks = [h \in Handlers |-> IdleHook]
  /\ fmt \in {[IdleFmt EXCEPT !.pc = "called", !.number = n] : n \in NumberInputs}
  /\ InitRealtime
  /\ marked = NoMark
  /\ callbacks = [h \in Handlers |-> IdleCallback]
  /\ retries = [h \in Handlers |-> IdleRetry]

FormatNumber ==
  /\ fmt.pc = "called"
  /\ fmt' = [fmt EXCEPT !.pc = "returned", !.formatted = FormatFor(fmt.number)]
  /\ UNCHANGED <<variant, store, req, now, gwSids, events, hookRes, hooks, realtime, marked, callbacks, retries>>

FormatAgain ==
  /\ fmt.pc = "returned"
  /\ fmt.formatted # NullSeq
  /\ fmt' = [fmt EXCEPT !.pc = "twice", !.again = FormatFor(fmt.formatted)]
  /\ UNCHANGED <<variant, store, req, now, gwSids, events, hookRes, hooks, realtime, marked, callbacks, retries>>

NextFormat == FormatNumber \/ FormatAgain

SpecFormat == InitFormat /\ [][NextFormat]_vars

\* The rooms of the Socket.IO handler: connections, joins and broadcasts
NextRooms ==
  \/ \E c \in Conns : Connect(c)
  \/ \E c \in Conns, p \in JoinPayloads : Join(c, p)
  \/ \E c \in Conns : Disconnect(c)
  \/ \E r \in Rooms : Broadcast(r)

SpecRooms == Init /\ [][NextRooms]_vars

\* The inactivity sweep: connections that join one room, answer the ping or
\* stay silent while the periods of the sweep pass
SweepPayloads == {NoContact, [array |-> FALSE, names |-> {"C2"}]}

NextSweep ==
  \/ \E c \in Conns : Connect(c)
  \/ \E c \in Conns, p \in SweepPayloads : Join(c, p)
  \/ \E c \in Conns : Pong(c)
  \/ \E c \in Conns : Disconnect(c)
  \/ Advance
  \/ Sweep

SpecSweep == Init /\ [][NextSweep]_vars

\* The inbound webhook: incoming messages processed by two handlers at a
\* time, beside a text submission that the gateway accepts and the status
\* callbacks 'read' and the one without a status
InboundStatusInputs == {Missing, "read"}

NextInbound ==
  \/ SendMessage("003A", PhoneUS, "hi", <<>>)
  \/ sendWithRetry
  \/ createResolves
  \/ SendMessageOutcome(FALSE)
  \/ \E h \in Handlers, sid \in ReconcileSids, f \in FromInputs, b \in InboundBodyInputs :
       IncomingWebhook(h, sid, f, b)
  \/ \E h \in Handlers : IncomingSave(h)
  \/ \E sid \in ReconcileSids, s \in InboundStatusInputs : StatusWebhook(sid, s, Missing, Missing)

SpecInbound == Init /\ [][NextInbound]_vars

\* Status callbacks that race: two requests at work at once, and the
\* submission whose record they report on
RaceStatusInputs == {Missing, "sent", "delivered", "read"}

NextRace ==
  \/ SendMessage("003A", PhoneUS, "hi", <<>>)
  \/ sendWithRetry
  \/ createResolves
  \/ SendMessageOutcome(FALSE)
  \/ \E h \in Handlers, s \in RaceStatusInputs : StatusReceive(h, GwSid(1), s, Missing, Missing)
  \/ \E h \in Handlers : StatusApply(h)

SpecRace == Init /\ [][NextRace]_vars

\* Manual retries: a submission the gateway refuses or accepts, and two retry
\* requests at work at once
NextRetry ==
  \/ SendMessage("003A", PhoneUS, "hi", <<>>)
  \/ sendWithRetry
  \/ createResolves
  \/ createRejects(NonRetryableError)
  \/ SendMessageOutcome(FALSE)
  \/ \E h \in Handlers, id \in RetryIdInputs : RetryFind(h, id)
  \/ \E h \in Handlers : RetryCheck(h)
  \/ \E h \in Handlers, ok \in BOOLEAN : RetrySent(h, ok)
  \/ \E h \in Handlers : RetryResult(h)

SpecRetry == Init /\ [][NextRetry]_vars

\* Marking read: outbound and inbound records, mark-read requests and the clock
NextRead ==
  \/ SendMessage("003A", PhoneUS, "hi", <<>>)
  \/ sendWithRetry
  \/ createResolves
  \/ SendMessageOutcome(FALSE)
  \/ IncomingWebhook(1, GwSid(MaxRecords + 1), "whatsapp:+15550001111", "hello")
  \/ IncomingSave(1)
  \/ Reading
  \/ Tick

SpecRead == Init /\ [][NextRead]_vars

----------------------------------------------------------------------------
(* Properties of the status reconciler *)

Rank(status) ==
  IF \E k \in 1..Len(StatusOrder) : StatusOrder[k] = status
  THEN CHOOSE k \in 1..Len(StatusOrder) : StatusOrder[k] = status
  ELSE 0

OrderedStatuses == {StatusOrder[k] : k \in 1..Len(StatusOrder)}

\* a step of POST /webhook/status that carries both required fields
CallbackStep(sid, cb) ==
  /\ sid # NoSid
  /\ cb[1] # Missing
  /\ StatusWebhook(sid, cb[1], cb[2], cb[3])

\* C1: a status callback with a status of queued < sending < sent < delivered
\* < read never moves the stored status of its record to an earlier position
\* of that order, so that the stored status is the maximum of those received.
C1_StatusNeverMovesBack ==
  [][\A sid \in SidInputs, cb \in CallbackInputs :
       (CallbackStep(sid, cb) /\ cb[1] \in OrderedStatuses)
       => \A i \in MatchingIds(store, sid) :
            store[i].status \in OrderedStatuses
            => /\ Rank(store'[i].status) >= Rank(store[i].status)
               /\ Rank(store'[i].status) >= Rank(cb[1])
               /\ store'[i].status \in {store[i].status, cb[1]}]_vars

SameOutcome(r1, r2) ==
  /\ r1.status = r2.status
  /\ r1.sentAt = r2.sentAt
  /\ r1.deliveredAt = r2.deliveredAt
  /\ r1.readAt = r2.readAt
  /\ r1.failedAt = r2.failedAt
  /\ r1.isRead = r2.isRead
  /\ r1.errorCode = r2.errorCode
  /\ r1.errorMessage = r2.errorMessage

\* the store is as a first application of the callback at time t left it
LeftBy(sid, cb, t) ==
  /\ MatchingIds(store, sid) # {}
  /\ store = updateOneBySid(store, sid, StatusUpdate(cb[1], cb[2], cb[3], t))

\* C2: a second delivery of an identical status callback leaves status, sentAt,
\* deliveredAt, readAt, failedAt, isRead, errorCode and errorMessage of the
\* record as the first delivery left them, also when time has advanced.
C2_ReplayKeepsRecord ==
  [][\A sid \in SidInputs, cb \in CallbackInputs :
       (CallbackStep(sid, cb) /\ \E t \in 1..now : LeftBy(sid, cb, t))
       => \A i \in MatchingIds(store, sid) : SameOutcome(store[i], store'[i])]_vars

\* C3: a failed/undelivered callback is applied whatever the current status
\* is, and once the stored status is failed or undelivered no later status
\* callback changes it to a status that is not a failure.
C3_FailureIsAbsorbing ==
  [][\A sid \in SidInputs, cb \in CallbackInputs :
       CallbackStep(sid, cb)
       => \A i \in MatchingIds(store, sid) :
            /\ cb[1] \in FailureStatuses => store'[i].status = cb[1]
            /\ store[i].status \in FailureStatuses
               => store'[i].status \in FailureStatuses]_vars

----------------------------------------------------------------------------
(* Properties of the delivery pipeline *)

\* the step in which a submission whose record exists is answered
AnsweredStep == req.pc = "returned" /\ req'.pc = "done"

\* C4: when the gateway has accepted a submission, the record of the
\* submission has the gateway-assigned sid, status 'sent' and sentAt set once
\* the request is answered, for send-template also when the fetch fails.
C4_AcceptedIsRecordedSent ==
  [][(AnsweredStep /\ req.result.success)
     => /\ store'[req.docId].messageSid = req.result.sid
        /\ store'[req.docId].status = "sent"
        /\ store'[req.docId].sentAt # Null]_vars

\* C5: when the gateway submission has failed, the record of the submission
\* has status 'failed', failedAt set and errorCode and errorMessage both set
\* once the request is answered, for text/media and template sends alike.
C5_FailureIsRecorded ==
  [][(AnsweredStep /\ ~req.result.success)
     => /\ store'[req.docId].status = "failed"
        /\ store'[req.docId].failedAt # Null
        /\ store'[req.docId].errorCode # NullStr
        /\ store'[req.docId].errorMessage # NullStr]_vars

InterimRecordSaved ==
  /\ req.docId \in 1..Len(store)
  /\ req.calls = 0
     => /\ store[req.docId].status = "queued"
        /\ store[req.docId].messageSid.prefix = "tw_"

\* C6: the record with status 'queued' and a 'tw_' identifier is in the store
\* before the first gateway create call is issued, and a record of the
\* submission is in the store in every state after a gateway call started,
\* also when the process has stopped.
C6_RecordBeforeGatewayCall ==
  /\ [][req'.calls > req.calls => InterimRecordSaved]_vars
  /\ [](req.calls > 0 => req.docId \in 1..Len(store))

C6_Witness ==
  /\ req.pc = "stopped"
  /\ req.calls = 1
  /\ store[req.docId].status = "queued"
  /\ store[req.docId].messageSid.prefix = "tw_"

AllInvalid(mediaUrl) == \A k \in 1..Len(mediaUrl) : mediaUrl[k] \notin ValidUrls

\* the requests the claim calls caller errors
MessageCallerError(contactId, to, body, mediaUrl) ==
  \/ contactId = Missing
  \/ to = <<>>
  \/ body = Missing /\ mediaUrl = <<>>
  \/ to = PhoneAbc
  \/ mediaUrl # <<>> /\ AllInvalid(mediaUrl)

TemplateCallerError(contactId, to, contentSid) ==
  \/ contactId = Missing
  \/ to = <<>>
  \/ contentSid = Missing
  \/ to = PhoneAbc

RejectedUntouched ==
  /\ req'.pc = "done"
  /\ req'.response.code = 400
  /\ ~req'.response.success
  /\ req'.calls = 0
  /\ store' = store
  /\ gwSids' = gwSids
  /\ events' = events

\* C7: a submission that is a caller error (contactId, to or all content
\* missing, a 'to' that cannot be normalized, only invalid media URLs) is
\* answered 400, creates no record, issues no gateway call and emits no event.
C7_CallerErrorCreatesNothing ==
  [][(CanStart /\ req' # req)
     => \/ RejectedUntouched
        \/ /\ \A c \in ContactInputs, t \in ToInputs, b \in BodyInputs, m \in MediaInputs :
                MessageCallerError(c, t, b, m) => ~SendMessage(c, t, b, m)
           /\ \A c \in ContactInputs, t \in ToInputs, cs \in ContentSidInputs :
                TemplateCallerError(c, t, cs) => ~SendTemplate(c, t, cs)]_vars

C7_Witness ==
  /\ req.pc = "done"
  /\ req.response.code = 400
  /\ req.docId = 0
  /\ Len(store) = 1
  /\ store[1].status = "sent"

----------------------------------------------------------------------------
(* Properties of sendWithRetry *)

\* retryable as the claim states it
ClaimRetryable(error) ==
  error.code \in {20429, 20003, 20005, 21614} \/ error.status >= 500

AllRetryable(errors) == \A k \in 1..Len(errors) : ClaimRetryable(errors[k])

\* C9: after k <= 3 retryable failures followed by a success, sendWithRetry
\* has returned success with the message of the successful call and has made
\* exactly k + 1 create calls; it never returns before that success.
C9_SuccessAfterRetries ==
  (req.pc = "returned" /\ AllRetryable(req.failures) /\ Len(req.failures) <= 3)
  => /\ req.result.success
     /\ req.result.sid = GwSid(gwSids)
     /\ req.calls = Len(req.failures) + 1

C9_Witness ==
  /\ req.pc = "returned"
  /\ req.result.success
  /\ Len(req.failures) = 3
  /\ req.calls = 4

\* C10: after a failed attempt sendWithRetry attempts again if and only if the
\* failure is retryable and fewer than 3 retries were used; otherwise it
\* returns success false with that failure at once, without a delay, and no
\* gateway call follows the return.
C10_RetryIffRetryable ==
  /\ [][\A e \in GatewayErrors :
          createRejects(e)
          => IF ClaimRetryable(e) /\ req.retryCount < 3
             THEN req'.pc = "backoff" /\ Len(req'.delays) = Len(req.delays) + 1
             ELSE /\ req'.pc = "returned"
                  /\ ~req'.result.success
                  /\ req'.result.error = e
                  /\ req'.delays = req.delays]_vars
  /\ [][req.pc = "backoff" /\ req' # req /\ req'.pc # "stopped"
        => req'.pc = "calling" /\ req'.calls = req.calls + 1
           /\ req'.retryCount = req.retryCount + 1]_vars
  /\ [][req.pc = "returned" /\ req' # req => req'.pc \in {"done", "stopped"}]_vars

C10_Witness ==
  /\ req.pc = "returned"
  /\ ~req.result.success
  /\ Len(req.failures) = 3
  /\ ~ClaimRetryable(req.failures[3])
  /\ req.calls = 3
  /\ Len(req.delays) = 2

InSendWithRetry == req.pc \in {"created", "calling", "backoff"}

\* C11: sendWithRetry always terminates, and whatever the gateway outcomes
\* are it makes at most maxRetries + 1 = 4 create calls: the first attempt and
\* at most 3 further attempts.
C11_TerminatesWithinBudget ==
  /\ [](req.calls <= 3 + 1 /\ req.retryCount <= 3)
  /\ InSendWithRetry ~> (req.pc \in {"returned", "stopped"})

C11_Witness ==
  /\ req.pc = "returned"
  /\ req.calls = 4
  /\ req.retryCount = 3

\* C12: when every attempt has failed with a retryable failure until the
\* budget is exhausted, sendWithRetry returns success false with the failure
\* of the last (4th) attempt, not the first one and not a synthetic error.
C12_LastFailureSurfaced ==
  (req.pc = "returned" /\ Len(req.failures) = 3 + 1 /\ AllRetryable(req.failures))
  => /\ ~req.result.success
     /\ req.result.error = req.failures[Len(req.failures)]
     /\ req.result.error \in GatewayErrors

C12_Witness ==
  /\ req.pc = "returned"
  /\ Len(req.failures) = 4
  /\ AllRetryable(req.failures)
  /\ req.failures[1] # req.failures[4]
  /\ req.result.error = req.failures[4]

\* the delay before the n-th retry, in milliseconds, as the claim states it
ClaimDelay(n) == CASE n = 1 -> 1000 [] n = 2 -> 2000 [] n = 3 -> 4000 [] OTHER -> 0

\* C13: the delay waited before the n-th retry (n = 1, 2, 3) is 2^(n-1)
\* seconds, 1000, 2000 and 4000 ms in that order; no delay is waited after a
\* success, after a failure that is not retryable or after the failure of the
\* last permitted attempt.
C13_BackoffDelays ==
  /\ \A n \in 1..Len(req.delays) : req.delays[n] = ClaimDelay(n)
  /\ Len(req.delays) <= 3
  /\ req.pc = "backoff" => Len(req.delays) = req.calls
  /\ req.pc \in {"calling", "returned"} => Len(req.delays) = req.calls - 1

C13_Witness ==
  /\ req.pc = "returned"
  /\ ~req.result.success
  /\ req.calls = 4
  /\ req.delays = <<1000, 2000, 4000>>

----------------------------------------------------------------------------
(* Properties of the webhooks *)

\* C14: a status callback whose MessageSid matches no record is answered 200
\* and creates and modifies no record; the status webhook answers 500 only on
\* an internal failure, so a callback that is processed is answered 200 or 400.
C14_UntrackedAcknowledged ==
  [][\A sid \in ReconcileSids, s \in InboundStatusInputs :
       StatusWebhook(sid, s, Missing, Missing)
       => /\ hookRes' \in {200, 400}
          /\ (sid # NoSid /\ s # Missing /\ MatchingIds(store, sid) = {})
             => hookRes' = 200 /\ store' = store]_vars

C14_Witness ==
  /\ hookRes = 200
  /\ Len(store) = 1
  /\ store[1].messageSid.prefix = "tw_"
  /\ store[1].status = "queued"

UniqueSids ==
  \A i, j \in 1..Len(store) : i # j => store[i].messageSid # store[j].messageSid

C16_RepeatUpdatesStatusOnly ==
  [][\A h \in Handlers :
       (IncomingSave(h) /\ MatchingIds(store, hooks[h].MessageSid) # {})
       => /\ Len(store') = Len(store)
          /\ \A i \in 1..Len(store) :
               /\ [store'[i] EXCEPT !.status = store[i].status] = store[i]
               /\ i \notin MatchingIds(store, hooks[h].MessageSid) => store'[i] = store[i]]_vars

C16_Witness ==
  \E i \in 1..Len(store) :
    /\ store[i].direction = "inbound"
    /\ store[i].status = "received"
    /\ store[i].isRead
    /\ store[i].readAt # Null

\* C17: a webhook request without a required field is answered 400 and leaves
\* the store unchanged: POST /webhook/status without MessageSid or without
\* MessageStatus, POST /webhook/incoming without MessageSid.
C17_MissingFieldRejected ==
  [][/\ \A sid \in ReconcileSids, s \in InboundStatusInputs :
          ((sid = NoSid \/ s = Missing) /\ StatusWebhook(sid, s, Missing, Missing))
          => hookRes' = 400 /\ store' = store
     /\ \A h \in Handlers, f \in FromInputs, b \in InboundBodyInputs :
          IncomingWebhook(h, NoSid, f, b)
          => hookRes' = 400 /\ store' = store /\ hooks' = hooks]_vars

C17_Witness ==
  /\ hookRes = 400
  /\ Len(store) = 2
  /\ \A h \in Handlers : hooks[h].pc = "idle"

\* C18: after a status callback with status sent, delivered, read, failed or
\* undelivered, in any letter case the endpoint accepts, was applied to a
\* tracked record, the timestamp of that status is set (sentAt, deliveredAt,
\* readAt, failedAt) and for failed/undelivered errorCode is the callback's
\* ErrorCode, or 'UNKNOWN' when the callback has none.
C18_StatusStampsItsTimestamp ==
  [][\A sid \in SidInputs, cb \in CallbackInputs :
       (CallbackStep(sid, cb) /\ MatchingIds(store, sid) # {})
       => LET i == findOne(store, sid)
              s == toLowerCase(cb[1])
          IN /\ s = "sent" => store'[i].sentAt # Null
             /\ s = "delivered" => store'[i].deliveredAt # Null
             /\ s = "read" => store'[i].readAt # Null
             /\ s \in {"failed", "undelivered"}
                => /\ store'[i].failedAt # Null
                   /\ store'[i].errorCode = (IF cb[2] = Missing THEN "UNKNOWN" ELSE cb[2])]_vars

\* C19: in every reachable state a record whose errorCode or errorMessage is
\* set has status failed or undelivered.
C19_ErrorOnlyWhenFailed ==
  \A i \in 1..Len(store) :
    (store[i].errorCode # NullStr \/ store[i].errorMessage # NullStr)
    => store[i].status \in {"failed", "undelivered"}

\* C20: in every reachable state the status of every record is one of queued,
\* sending, sent, delivered, read, received, failed, undelivered; a status
\* callback with another MessageStatus never has its value written.
C20_StatusInClosedSet ==
  \A i \in 1..Len(store) :
    store[i].status \in {"queued", "sending", "sent", "delivered", "read", "received",
                         "failed", "undelivered"}

\* a step of the status reconciler that leaves the submission in flight as it
\* is: in SpecReconcile these are the steps of POST /webhook/status and of
\* the clock
CallbackOrTick == req' = req

\* C21: no status callback clears a lifecycle timestamp: each of sentAt,
\* deliveredAt, readAt and failedAt that was set before a callback is set after
\* it, also when the callback reports an earlier status than the recorded one.
C21_TimestampsNeverCleared ==
  [][CallbackOrTick
     => /\ Len(store') = Len(store)
        /\ \A i \in 1..Len(store) :
             /\ store[i].sentAt # Null => store'[i].sentAt # Null
             /\ store[i].deliveredAt # Null => store'[i].deliveredAt # Null
             /\ store[i].readAt # Null => store'[i].readAt # Null
             /\ store[i].failedAt # Null => store'[i].failedAt # Null]_vars

C21_Witness ==
  /\ Len(store) = 1
  /\ store[1].status = "queued"
  /\ store[1].sentAt # Null
  /\ store[1].deliveredAt # Null

\* C22: every status callback applied to a tracked record results in a
\* realtime event with the updated record being emitted to the group of the
\* record's contactId.
C22_CallbackIsBroadcast ==
  [][\A sid \in ReconcileSids, cb \in CallbackInputs :
       (CallbackStep(sid, cb) /\ MatchingIds(store, sid) # {})
       => LET i == findOne(store, sid)
          IN \E e \in events' :
               /\ e.room = store[i].contactId
               /\ e.docId = i
               /\ e.status = store'[i].status]_vars

\* C23: every submission whose gateway outcome is known emits exactly one
\* realtime event to the group of the request's contactId, 'new-message' when
\* the gateway accepted and 'message-status-update' when it failed, with the
\* record already updated with that outcome; a rejected submission emits none.
C23_OneEventPerOutcome ==
  [][/\ AnsweredStep
        => \E e \in events' :
             /\ e \notin events
             /\ events' = events \cup {e}
             /\ e.room = req.contactId
             /\ e.docId = req.docId
             /\ e.event = (IF req.result.success THEN "new-message" ELSE "message-status-update")
             /\ e.status = store'[req.docId].status
     /\ (CanStart /\ req'.pc = "done") => events' = events]_vars

HasChannelMarker(address) == startsWith(address, WhatsappPrefix)

\* C24: for every accepted submission, send-message and send-template, the
\* from and to stored in the record carry no 'whatsapp:' marker and the from
\* and to passed to the gateway create call both carry it.
C24_MarkerOnlyAtGateway ==
  req.pc = "calling"
  => /\ ~HasChannelMarker(store[req.docId].from)
     /\ ~HasChannelMarker(store[req.docId].to)
     /\ HasChannelMarker(req.messageOptions.from)
     /\ HasChannelMarker(req.messageOptions.to)

----------------------------------------------------------------------------
(* Properties of formatPhoneNumber *)

\* 'whatsapp:+' followed by 10 to 15 digits and nothing else
IsCanonicalAddress(s) ==
  /\ Len(s) >= 10
  /\ SubSeq(s, 1, 10) = <<"w", "h", "a", "t", "s", "a", "p", "p", ":", "+">>
  /\ Len(s) - 10 >= 10
  /\ Len(s) - 10 <= 15
  /\ \A i \in 11..Len(s) : s[i] \in {"0", "1", "2", "3", "4", "5", "6", "7", "8", "9"}

\* C25: for every input formatPhoneNumber returns null or 'whatsapp:+' and 10
\* to 15 digits and nothing else; an input that starts with 'whatsapp:' is
\* validated by the same rule and rejected when its remainder is no number.
C25_NullOrCanonical ==
  fmt.pc \in {"returned", "twice"}
  => fmt.formatted = NullSeq \/ IsCanonicalAddress(fmt.formatted)

\* C26: formatPhoneNumber is idempotent on its outputs: where
\* formatPhoneNumber(x) is not null, formatPhoneNumber(formatPhoneNumber(x))
\* is formatPhoneNumber(x).
C26_Idempotent ==
  fmt.pc = "twice" => fmt.again = fmt.formatted

C26_Witness ==
  /\ fmt.pc = "twice"
  /\ fmt.number = <<"0">> \o DigitRun(9) \o <<" ">>
  /\ fmt.formatted # fmt.number
  /\ IsCanonicalAddress(fmt.formatted)
  /\ fmt.again = fmt.formatted


\* C27: in every reachable state each live connection is a member of at most
\* one conversation group, the group of its most recent successful join.
C27_AtMostOneGroup ==
  \A c \in Conns :
    sockets[c].connected =>
      /\ Cardinality(sockets[c].rooms) <= 1
      /\ \A p \in connectedClients[c].rooms : sockets[c].rooms \subseteq p.names

\* C28: a broadcast to a conversation is received by exactly the connections
\* that are connected and members of its group when it is made; no other step
\* delivers an event, so a later joiner or a closed connection never gets it.
C28_DeliveredToCurrentMembers ==
  [][\A c \in Conns :
       /\ sent' = sent => sockets'[c].inbox \subseteq sockets[c].inbox
       /\ \A r \in Rooms :
            (sent' = Append(sent, r)) =>
              sockets'[c].inbox =
                IF sockets[c].connected /\ r \in sockets[c].rooms
                THEN sockets[c].inbox \cup {Len(sent) + 1}
                ELSE sockets[c].inbox]_vars

\* a member of "C2" received the first broadcast to "C2"; the connection that
\* joined "C2" afterwards did not
C28_Witness ==
  /\ Len(sent) = 1
  /\ sent[1] = "C2"
  /\ sockets["s1"].inbox = {1}
  /\ sockets["s2"].connected
  /\ sockets["s2"].rooms = {"C2"}
  /\ sockets["s2"].inbox = {}

\* C29: a join without a conversationId is acknowledged as a failure and leaves
\* the membership and the recorded room set as they were; a join with one is
\* acknowledged as a success with the room, and repeating the same join leaves
\* the membership unchanged.
C29_JoinAcknowledged ==
  [][\A c \in Conns, p \in JoinPayloads :
       Join(c, p) =>
         IF p = NoContact
         THEN /\ ack' = [conn |-> c, success |-> FALSE, room |-> NoContact]
              /\ sockets' = sockets
              /\ connectedClients' = connectedClients
         ELSE /\ ack' = [conn |-> c, success |-> TRUE, room |-> p]
              /\ connectedClients[c].rooms = {p} => sockets'[c].rooms = sockets[c].rooms]_vars

\* a connection in "C2" whose last join carried no conversationId
C29_Witness ==
  /\ ack = [conn |-> "s1", success |-> FALSE, room |-> NoContact]
  /\ sockets["s1"].rooms = {"C2"}
  /\ connectedClients["s1"].rooms = {[array |-> FALSE, names |-> {"C2"}]}

\* C30: a connection whose last activity is more than 300000 ms old is closed
\* by the next sweep and is then in no group and absent from the registry; a
\* connection whose last activity is at most 300000 ms old is left alone by
\* the sweep; once a sweep has run no registered connection is older.
C30_SweepDisconnectsInactive ==
  /\ [](~sweepDue =>
          \A c \in Conns :
            connectedClients[c].registered =>
              clock - connectedClients[c].lastActivity <= InactivityWindow)
  /\ [][(sweepDue /\ ~sweepDue') =>
          \A c \in Conns :
            IF /\ connectedClients[c].registered
               /\ clock - connectedClients[c].lastActivity > InactivityWindow
            THEN /\ ~sockets'[c].connected
                 /\ sockets'[c].rooms = {}
                 /\ ~connectedClients'[c].registered
            ELSE /\ sockets'[c] = sockets[c]
                 /\ connectedClients'[c] = connectedClients[c]]_vars

\* the sweep has closed one connection and left the one whose last activity
\* is exactly 300000 ms old
C30_Witness ==
  /\ ~sweepDue
  /\ sockets["s1"].reason = "forced close"
  /\ ~connectedClients["s1"].registered
  /\ sockets["s2"].connected
  /\ sockets["s2"].rooms = {"C2"}
  /\ clock - connectedClients["s2"].lastActivity = InactivityWindow


\* a submission is answered after its record was updated and no event was
\* sent: the emit of the second routes file threw
EmitThrewStep ==
  /\ AnsweredStep
  /\ variant = "part_003"
  /\ store' # store
  /\ events' = events

\* C31: an error raised while a realtime event is emitted does not reach the
\* request: the update of the record made before the emit is kept and the
\* response is the one given when the emit succeeds, 202 with the gateway sid
\* after an accepted submission and 500 after a failed one.
C31_EmitFailureSwallowed ==
  [][EmitThrewStep
     => IF req.result.success
        THEN /\ store'[req.docId].status = "sent"
             /\ store'[req.docId].messageSid = req.result.sid
             /\ req'.response = [code |-> 202, success |-> TRUE, status |-> "sent",
                                 sid |-> req.result.sid]
        ELSE /\ store'[req.docId].status = "failed"
             /\ store'[req.docId].failedAt # Null
             /\ req'.response = [code |-> 500, success |-> FALSE, status |-> Missing,
                                 sid |-> NoSid]]_vars

\* an accepted send-message whose 'new-message' emit threw: the record is
\* 'sent', the answer 202, and no event was sent
C31_Witness ==
  /\ variant = "part_003"
  /\ req.pc = "done"
  /\ req.route = "send-message"
  /\ req.response.code = 202
  /\ store[req.docId].status = "sent"
  /\ \A e \in events : e.docId # req.docId

\* C32: marking read is idempotent on the store: a mark-read request that
\* repeats the previous one on the store the previous one left changes no
\* record, isRead, status and readAt included.
C32_MarkReadIdempotent ==
  [][(/\ marked' # marked
      /\ marked.code = 200
      /\ marked'.messageIds = marked.messageIds
      /\ marked'.contactId = marked.contactId
      /\ marked.after = store)
     => store' = store]_vars


\* C33: every submission receives exactly one structured response: a handler
\* that has ended has answered once, with a status code and a success flag
\* that agree, whatever path it took; a handler still at work has not answered.
C33_ExactlyOneResponse ==
  /\ req.pc = "done"
       => /\ req.responses = 1
          /\ req.response.code \in {202, 400, 500}
          /\ req.response.success = (req.response.code = 202)
  /\ req.pc \in {"created", "calling", "backoff", "returned"} => req.responses = 0

\* a template the gateway accepted whose fetch or update failed: answered once
\* by the catch block while the record is still 'queued'
C33_Witness ==
  /\ req.pc = "done"
  /\ req.route = "send-template"
  /\ req.docId # 0
  /\ req.responses = 1
  /\ store[req.docId].status = "queued"


\* two status callbacks for the record of the submission were at work at the
\* same time and both have been answered
BothAnswered ==
  \A h \in Handlers :
    /\ callbacks[h].pc = "answered"
    /\ callbacks[h].concurrent
    /\ callbacks[h].MessageStatus \in OrderedStatuses
    /\ findOne(store, callbacks[h].MessageSid) # 0

LaterStatus(s1, s2) == IF Rank(s1) >= Rank(s2) THEN s1 ELSE s2

\* C34: when two status callbacks for the same tracked MessageSid were
\* processed concurrently, the stored status is the later of the two reported
\* statuses in the order queued < sending < sent < delivered < read, whatever
\* the order of their store operations was.
C34_ConcurrentCallbacksConverge ==
  (BothAnswered /\ callbacks[1].MessageSid = callbacks[2].MessageSid)
  => store[findOne(store, callbacks[1].MessageSid)].status =
       LaterStatus(callbacks[1].MessageStatus, callbacks[2].MessageStatus)

\* C35: once the pipeline's update after the submission and a 'delivered' or
\* 'read' callback carrying the gateway sid have both completed, the stored
\* status is the callback's, not 'sent' and not 'queued'.
C35_CallbackNotLostToPipeline ==
  \A h \in Handlers :
    (/\ req.pc = "done"
     /\ req.response.code = 202
     /\ callbacks[h].pc = "answered"
     /\ callbacks[h].MessageSid = req.response.sid
     /\ callbacks[h].MessageStatus \in {"delivered", "read"})
    => store[req.docId].status \in {"delivered", "read"}


\* a retry request is answered before it has reset the record
RefusedRetry(h) ==
  /\ retries[h].pc \in {"idle", "answered", "found"}
  /\ retries'[h].pc = "answered"
  /\ retries'[h] # retries[h]

\* C36: a manual retry of a record whose status is not 'failed' is answered
\* 400 and a retry of an unknown id is answered 404; neither modifies a
\* record, calls the gateway or emits an event.
C36_RefusedRetryChangesNothing ==
  [][\A h \in Handlers :
       RefusedRetry(h)
       => /\ store' = store
          /\ gwSids' = gwSids
          /\ events' = events
          /\ retries'[h].message # "failed"
          /\ retries'[h].code =
               (IF retries'[h].message = "none" THEN 404 ELSE 400)]_vars

\* the steps of a retry between the reset of the record and the answer
InChain == {"queued", "returned"}

\* C37: for one failed record at most one of the retry requests at work at the
\* same time passes the check of the status and submits to the gateway.
C37_OneRetryChain ==
  \A h, g \in Handlers :
    (h # g /\ retries[h].messageId = retries[g].messageId)
    => ~(retries[h].pc \in InChain /\ retries[g].pc \in InChain)


\* C38: in every reachable state the connection registry holds exactly the
\* connected sockets, a heartbeat timer runs for exactly those, and
\* getConnectedClients() is the number of live connections, whether a socket
\* was closed by its client or by the inactivity sweep.
C38_RegistryIsLiveConnections ==
  /\ \A c \in Conns :
       /\ connectedClients[c].registered <=> sockets[c].connected
       /\ sockets[c].heartbeat <=> sockets[c].connected
  /\ getConnectedClients = Cardinality({c \in Conns : sockets[c].connected})

\* one socket was closed by the sweep, the other by its client after a join,
\* and the first has connected again: one live connection in the registry
C38_Witness ==
  /\ sockets["s1"].connected
  /\ clock > InactivityWindow
  /\ connectedClients["s1"].lastActivity = clock
  /\ sockets["s2"].reason = "forced close"
  /\ getConnectedClients = 1

====
